---- MODULE Spec2Model ----
(***************************************************************************)
(* Model of the Galaxy tool form view (mvc/tool/tool-form): the client     *)
(* side validation of a job request, and the life cycle of the three       *)
(* requests the view issues (buildmodel, postchange, submit).              *)
(*                                                                         *)
(* SpecValidate explores validate() as a pure function of the form's       *)
(* registered fields and of the collected job inputs.  Spec explores the   *)
(* request/response life cycle of the view.                                *)
(***************************************************************************)
EXTENDS Integers, Sequences, FiniteSets, TLC

\* ------------------------------------------------------------------ bounds
NumInputs == 3      \* number of entries of job.inputs
MaxSel == 1         \* largest number of selections of a batch field
MaxReq == 3         \* number of operations invoked in one behaviour
NumContents == 2    \* distinct tool definitions the server may answer with
NumFields == 2      \* fields of the form whose requests are followed

\* -------------------------------------------------------------- JS values
NoId == 0                       \* form.data.match found nothing (falsy)
NoSrc == "none"                 \* falsy `u`, and the initial `i = null`
NoCount == -1                   \* the initial `o = -1`
Srcs == {"hda", "hdca"}

\* A submitted value: null/undefined, a plain value, or a batch object
\* {batch: true, values: [{src: ...}, ...]}.
Null == [type |-> "null", batch |-> FALSE, values |-> << >>]
Scalar == [type |-> "scalar", batch |-> FALSE, values |-> << >>]
BatchOf(n, src) ==
    [type |-> "object", batch |-> TRUE, values |-> [k \in 1..n |-> [src |-> src]]]
Values ==
    {Null, Scalar} \cup {BatchOf(n, s) : n \in 0..MaxSel, s \in Srcs}

\* What the form knows about input name a: the id form.data.match(a) gives
\* (r), whether field_list[r] (s) and input_list[r] (n) are defined, and
\* input_list[r].optional.  field_list and input_list are filled together.
FormEntries(a) ==
    { [r |-> NoId, s |-> FALSE, n |-> FALSE, optional |-> FALSE],
      [r |-> a,    s |-> FALSE, n |-> FALSE, optional |-> FALSE],
      [r |-> a,    s |-> TRUE,  n |-> TRUE,  optional |-> TRUE],
      [r |-> a,    s |-> TRUE,  n |-> TRUE,  optional |-> FALSE] }

Forms(len) == { f \in [1..len -> UNION {FormEntries(a) : a \in 1..len}] :
                  \A a \in 1..len : f[a] \in FormEntries(a) }
Inputs(len) == [1..len -> Values]

\* ------------------------------------------------------------ highlights
MsgNone == "none"       \* form.highlight(r)
MsgKind == "kind"       \* "Please select either dataset or dataset list ..."
MsgCount == "count"     \* "... same number of inputs for all batch mode ..."
NoHighlight == [id |-> NoId, msg |-> MsgNone, d |-> NoCount, o |-> NoCount]
Highlight(r, msg, d, o) == [id |-> r, msg |-> msg, d |-> d, o |-> o]

\* ---------------------------------------------------------------- validate
\* if (r && n && s)
Resolved(e) == e.r # NoId /\ e.n /\ e.s

\* if (!n.optional && null == l)
\* Variant: the negation of `optional` dropped.
RequiredMissingNegated(e, l) == e.optional /\ l.type = "null"
RequiredMissing(e, l) == ~e.optional /\ l.type = "null"

\* if (l && l.batch)
IsBatch(l) == l.type = "object" /\ l.batch

\* u = d > 0 && l.values[0] && l.values[0].src
SrcOf(l) == IF Len(l.values) > 0 THEN l.values[1].src ELSE NoSrc

\* if (u) if (null === i) i = u; else if (i !== u) return ...
\* Variant: the kinds are never compared.
KindMismatchNever(i, u) == FALSE
KindMismatch(i, u) == u # NoSrc /\ i # NoSrc /\ i # u

\* if (-1 === o) o = d; else if (o !== d) return ...
\* Variant: only a larger count is taken for a mismatch.
CountMismatchGrowOnly(o, d) == o # NoCount /\ o < d
CountMismatch(o, d) == o # NoCount /\ o # d

RECURSIVE validateFrom(_, _, _, _, _)
validateFrom(form, inputs, a, o, i) ==
    IF a > Len(inputs)
    THEN [ret |-> TRUE, hl |-> NoHighlight]
    ELSE LET l == inputs[a]
             e == form[a]
         IN IF ~Resolved(e)
            THEN validateFrom(form, inputs, a + 1, o, i)
            ELSE IF RequiredMissing(e, l)
            THEN [ret |-> FALSE, hl |-> Highlight(e.r, MsgNone, NoCount, NoCount)]
            ELSE IF ~IsBatch(l)
            THEN validateFrom(form, inputs, a + 1, o, i)
            ELSE LET d == Len(l.values)
                     u == SrcOf(l)
                 IN IF KindMismatch(i, u)
                    THEN [ret |-> FALSE, hl |-> Highlight(e.r, MsgKind, NoCount, NoCount)]
                    ELSE IF CountMismatch(o, d)
                    THEN [ret |-> FALSE, hl |-> Highlight(e.r, MsgCount, d, o)]
                    ELSE validateFrom(form, inputs, a + 1,
                                      IF o = NoCount THEN d ELSE o,
                                      IF u # NoSrc /\ i = NoSrc THEN u ELSE i)

validate(form, inputs) == validateFrom(form, inputs, 1, NoCount, NoSrc)

\* ------------------------------------------------------- the view's state
Runner == "tool_runner/index"       \* Galaxy.root + "tool_runner/index"
Custom == "custom"                  \* any other tool action
NoAction == "none"

\* A tool definition as the server sends it: an identity and its action.
ContentOf(c) == [c |-> c, action |-> IF c % 2 = 1 THEN Runner ELSE Custom]
Contents == 1..NumContents
InitialModel == [c |-> 0, action |-> NoAction]   \* the options of the view

\* form.update(response): the form takes over the definition it is handed.
update(m, response) == response

\* form.trigger("reset"): every field drops its highlight.
reset(h) == {}

Ids == 1..NumFields

\* The outcome of validate over everything form.data.create() can collect.
ValidateResults ==
    { validate(f, i) : f \in Forms(NumFields), i \in Inputs(NumFields) }

\* form.data.matchResponse(err_data): the matched field ids, in key order.
MatchResults ==
    { m \in UNION { [1..n -> Ids] : n \in 0..NumFields } :
        \A x, y \in DOMAIN m : x # y => m[x] # m[y] }

\* The argument of submit's error callback: nothing, a body without
\* err_data, or a body whose err_data matches the fields `matches`.
ErrorResponses ==
    { [present |-> FALSE, err_data |-> FALSE, matches |-> << >>],
      [present |-> TRUE,  err_data |-> FALSE, matches |-> << >>] }
    \cup { [present |-> TRUE, err_data |-> TRUE, matches |-> m] : m \in MatchResults }

ModalHidden == "hidden"
ModalTool == "Tool request failed"
ModalJob == "Job submission failed"

VARIABLES vForm, vInputs, vDone, vRes,
          model,            \* form.model.attributes
          location,         \* "form", or where window.location was sent
          built,            \* _customize ran: the Execute button exists
          formVisible,      \* the view's children are shown
          banner,           \* the error message prepended to an empty form
          modal,            \* title of the modal shown, or ModalHidden
          highlighted,      \* ids of the highlighted fields
          formWait,         \* form.wait(true) is in effect
          buttonGen,        \* which Execute button is the current one
          buttonWait,       \* the current Execute button is waiting
          portletDisabled,  \* form.portlet is disabled
          webhook,          \* a WebhookView was created
          reqs,             \* one record per invocation of an operation
          handled,          \* number of responses handled so far
          invoked           \* number of operations the form or the user invoked

lvars == <<model, location, built, formVisible, banner, modal, highlighted,
           formWait, buttonGen, buttonWait, portletDisabled, webhook, reqs,
           handled, invoked>>


vvars == <<vForm, vInputs, vDone, vRes>>
vars == <<vvars, lvars>>

\* One record per invocation: what was sent, what came back, and what the
\* invocation's callbacks did.
NewReq(op) ==
    [op |-> op, st |-> "inflight", seq |-> 0, content |-> 0, display |-> FALSE,
     valid |-> TRUE, action |-> NoAction, api |-> 1, post |-> 0, cb |-> 0,
     settled |-> 0, outcome |-> "pending", unwaits |-> 0, hl |-> {},
     modalShown |-> FALSE, errData |-> FALSE, first |-> NoId, gen |-> 0]

InFlight(k, op) == k \in DOMAIN reqs /\ reqs[k].op = op /\ reqs[k].st = "inflight"

InitLife ==
    /\ model = InitialModel
    /\ location = "form"
    /\ built = FALSE
    /\ formVisible = TRUE
    /\ banner = FALSE
    /\ modal = ModalHidden
    /\ highlighted = {}
    /\ formWait = FALSE
    /\ buttonGen = 0
    /\ buttonWait = FALSE
    /\ portletDisabled = FALSE
    /\ webhook = FALSE
    /\ reqs = << >>
    /\ handled = 0
    /\ invoked = 0

\* ------------------------------------------------------------- buildmodel
\* buildmodel(e, o): one GET of api/tools/<id>/build or
\* api/jobs/<job_id>/build_for_rerun.
Buildmodel ==
    /\ location = "form"
    /\ UNCHANGED vvars
    /\ Len(reqs) < MaxReq
    /\ invoked' = invoked + 1
    /\ reqs' = Append(reqs, NewReq("buildmodel"))
    /\ UNCHANGED <<model, location, built, formVisible, banner, modal,
                   highlighted, formWait, buttonGen, buttonWait,
                   portletDisabled, webhook, handled>>

\* success: i.display ? (o.model.set(i), t._customize(o), e.resolve())
\*                    : window.location = Galaxy.root
\* _customize makes a new Execute button; the input it may push for a rerun
\* belongs to the definition's input list, which ContentOf stands for.
BuildSuccess(k, c, display) ==
    /\ location = "form"
    /\ UNCHANGED vvars
    /\ InFlight(k, "buildmodel")
    /\ handled' = handled + 1
    /\ UNCHANGED invoked
    /\ IF display
       THEN /\ model' = ContentOf(c)
            /\ built' = TRUE
            /\ buttonGen' = buttonGen + 1
            /\ buttonWait' = FALSE
            /\ reqs' = [reqs EXCEPT ![k] = [@ EXCEPT !.st = "success",
                          !.seq = handled + 1, !.content = c, !.display = TRUE,
                          !.settled = @ + 1, !.outcome = "resolved"]]
            /\ UNCHANGED location
       ELSE /\ location' = "root"
            /\ reqs' = [reqs EXCEPT ![k] = [@ EXCEPT !.st = "success",
                          !.seq = handled + 1, !.content = c]]
            /\ UNCHANGED <<model, built, buttonGen, buttonWait>>
    /\ UNCHANGED <<formVisible, banner, modal, highlighted, formWait,
                   portletDisabled, webhook>>

\* Variant: a failed build throws the model away.
BuildErrorDropsModel(k, status, hasModal) ==
    /\ location = "form"
    /\ UNCHANGED vvars
    /\ InFlight(k, "buildmodel")
    /\ handled' = handled + 1
    /\ UNCHANGED invoked
    /\ model' = InitialModel
    /\ reqs' = [reqs EXCEPT ![k] = [@ EXCEPT !.st = "error", !.seq = handled + 1,
                  !.settled = @ + 1, !.outcome = "rejected"]]
    /\ UNCHANGED <<location, built, formVisible, banner, modal, highlighted,
                   formWait, buttonGen, buttonWait, portletDisabled, webhook>>

\* error: 401 == a ? window.location = login
\*        : o.$el.is(":empty") ? o.$el.prepend(message)
\*        : Galaxy.modal && Galaxy.modal.show("Tool request failed"); e.reject()
BuildError(k, status, hasModal) ==
    /\ location = "form"
    /\ UNCHANGED vvars
    /\ InFlight(k, "buildmodel")
    /\ handled' = handled + 1
    /\ UNCHANGED invoked
    /\ IF status = 401
       THEN location' = "login" /\ UNCHANGED <<banner, modal>>
       ELSE IF ~built /\ ~banner
       THEN banner' = TRUE /\ UNCHANGED <<location, modal>>
       ELSE IF hasModal
       THEN modal' = ModalTool /\ UNCHANGED <<location, banner>>
       ELSE UNCHANGED <<location, banner, modal>>
    /\ reqs' = [reqs EXCEPT ![k] = [@ EXCEPT !.st = "error", !.seq = handled + 1,
                  !.settled = @ + 1, !.outcome = "rejected"]]
    /\ UNCHANGED <<model, built, formVisible, highlighted, formWait, buttonGen,
                   buttonWait, portletDisabled, webhook>>

\* ------------------------------------------------------------- postchange
\* postchange(e, t): t.wait(true), then one POST of api/tools/<id>/build.
\* Nothing in the view waits for an earlier refresh to come back.
Postchange ==
    /\ location = "form"
    /\ UNCHANGED vvars
    /\ built /\ formVisible
    /\ Len(reqs) < MaxReq
    /\ invoked' = invoked + 1
    /\ formWait' = TRUE
    /\ reqs' = Append(reqs, NewReq("postchange"))
    /\ UNCHANGED <<model, location, built, formVisible, banner, modal,
                   highlighted, buttonGen, buttonWait, portletDisabled,
                   webhook, handled>>

\* Variant: a response older than one already applied is ignored.
PostchangeSuccessDropsStale(k, c) ==
    /\ location = "form"
    /\ UNCHANGED vvars
    /\ InFlight(k, "postchange")
    /\ handled' = handled + 1
    /\ UNCHANGED invoked
    /\ model' = IF \E j \in DOMAIN reqs : j > k /\ reqs[j].st = "success"
                THEN model ELSE update(model, ContentOf(c))
    /\ formWait' = FALSE
    /\ reqs' = [reqs EXCEPT ![k] = [@ EXCEPT !.st = "success",
                  !.seq = handled + 1, !.content = c, !.unwaits = @ + 1,
                  !.settled = @ + 1, !.outcome = "resolved"]]
    /\ UNCHANGED <<location, built, formVisible, banner, modal, highlighted,
                   buttonGen, buttonWait, portletDisabled, webhook>>

\* success: t.update(o), t.wait(false), e.resolve()
PostchangeSuccess(k, c) ==
    /\ location = "form"
    /\ UNCHANGED vvars
    /\ InFlight(k, "postchange")
    /\ handled' = handled + 1
    /\ UNCHANGED invoked
    /\ model' = update(model, ContentOf(c))
    /\ formWait' = FALSE
    /\ reqs' = [reqs EXCEPT ![k] = [@ EXCEPT !.st = "success",
                  !.seq = handled + 1, !.content = c, !.unwaits = @ + 1,
                  !.settled = @ + 1, !.outcome = "resolved"]]
    /\ UNCHANGED <<location, built, formVisible, banner, modal, highlighted,
                   buttonGen, buttonWait, portletDisabled, webhook>>

\* Variant: a failed refresh is sent again.
PostchangeErrorRetries(k) ==
    /\ location = "form"
    /\ UNCHANGED vvars
    /\ InFlight(k, "postchange")
    /\ handled' = handled + 1
    /\ UNCHANGED invoked
    /\ reqs' = [reqs EXCEPT ![k] = [@ EXCEPT !.seq = handled + 1, !.api = 2]]
    /\ UNCHANGED <<model, location, built, formVisible, banner, modal,
                   highlighted, formWait, buttonGen, buttonWait,
                   portletDisabled, webhook>>

\* error: e.reject()
PostchangeError(k) ==
    /\ location = "form"
    /\ UNCHANGED vvars
    /\ InFlight(k, "postchange")
    /\ handled' = handled + 1
    /\ UNCHANGED invoked
    /\ reqs' = [reqs EXCEPT ![k] = [@ EXCEPT !.st = "error", !.seq = handled + 1,
                  !.settled = @ + 1, !.outcome = "rejected"]]
    /\ UNCHANGED <<model, location, built, formVisible, banner, modal,
                   highlighted, formWait, buttonGen, buttonWait,
                   portletDisabled, webhook>>

\* ----------------------------------------------------------------- submit
\* The Execute button's onclick: i.wait(), e.portlet.disable(), then
\* submit(o, callback) with callback = i.unwait(), e.portlet.enable().
\* submit resets the highlights, validates, and either gives up, posts a
\* plain HTML form to the tool's own action, or POSTs api/tools.
\* Variant: the result of validate is not looked at.
SubmitIgnoresValidation(res) ==
    /\ location = "form"
    /\ UNCHANGED vvars
    /\ built /\ formVisible
    /\ Len(reqs) < MaxReq
    /\ invoked' = invoked + 1
    /\ highlighted' = IF res.ret THEN reset(highlighted)
                      ELSE reset(highlighted) \cup {res.hl.id}
    /\ IF model.action # Runner
       THEN /\ reqs' = Append(reqs, [NewReq("submit") EXCEPT !.st = "formpost",
                         !.valid = res.ret, !.action = model.action, !.api = 0,
                         !.post = 1, !.cb = 1, !.unwaits = 1, !.gen = buttonGen])
            /\ location' = "action"
            /\ buttonWait' = FALSE
            /\ portletDisabled' = FALSE
       ELSE /\ reqs' = Append(reqs, [NewReq("submit") EXCEPT
                         !.valid = res.ret, !.action = model.action,
                         !.gen = buttonGen])
            /\ buttonWait' = TRUE
            /\ portletDisabled' = TRUE
            /\ UNCHANGED location
    /\ UNCHANGED <<model, built, formVisible, banner, modal, formWait,
                   buttonGen, webhook, handled>>

Submit(res) ==
    /\ location = "form"
    /\ UNCHANGED vvars
    /\ built /\ formVisible
    /\ Len(reqs) < MaxReq
    /\ invoked' = invoked + 1
    /\ IF ~res.ret
       THEN \* validation failed: highlight, callback, nothing is sent
            /\ highlighted' = reset(highlighted) \cup {res.hl.id}
            /\ reqs' = Append(reqs, [NewReq("submit") EXCEPT !.st = "invalid",
                         !.valid = FALSE, !.action = model.action, !.api = 0,
                         !.cb = 1, !.unwaits = 1, !.gen = buttonGen])
            /\ buttonWait' = FALSE
            /\ portletDisabled' = FALSE
            /\ UNCHANGED location
       ELSE IF model.action # Runner
       THEN \* $("<form/>")...submit().remove(), then the callback
            /\ highlighted' = reset(highlighted)
            /\ reqs' = Append(reqs, [NewReq("submit") EXCEPT !.st = "formpost",
                         !.valid = TRUE, !.action = model.action, !.api = 0,
                         !.post = 1, !.cb = 1, !.unwaits = 1, !.gen = buttonGen])
            /\ location' = "action"
            /\ buttonWait' = FALSE
            /\ portletDisabled' = FALSE
       ELSE \* POST api/tools; the callback waits for the response
            /\ highlighted' = reset(highlighted)
            /\ reqs' = Append(reqs, [NewReq("submit") EXCEPT
                         !.valid = TRUE, !.action = model.action,
                         !.gen = buttonGen])
            /\ buttonWait' = TRUE
            /\ portletDisabled' = TRUE
            /\ UNCHANGED location
    /\ UNCHANGED <<model, built, formVisible, banner, modal, formWait,
                   buttonGen, webhook, handled>>

\* success: callback, hide the form, show the success template, create the
\* webhook view when jobs were created.
SubmitSuccess(k, hasJobs) ==
    /\ location = "form"
    /\ UNCHANGED vvars
    /\ InFlight(k, "submit")
    /\ handled' = handled + 1
    /\ UNCHANGED invoked
    /\ buttonWait' = IF reqs[k].gen = buttonGen THEN FALSE ELSE buttonWait
    /\ portletDisabled' = FALSE
    /\ formVisible' = FALSE
    /\ webhook' = (webhook \/ hasJobs)
    /\ reqs' = [reqs EXCEPT ![k] = [@ EXCEPT !.st = "success", !.seq = handled + 1,
                  !.cb = @ + 1, !.unwaits = @ + 1]]
    /\ UNCHANGED <<model, location, built, banner, modal, highlighted,
                   formWait, buttonGen>>

\* Variant: the error callback forgets the callback.
SubmitErrorNoCallback(k, e) ==
    /\ location = "form"
    /\ UNCHANGED vvars
    /\ InFlight(k, "submit")
    /\ handled' = handled + 1
    /\ UNCHANGED invoked
    /\ LET a == e.present /\ e.err_data /\ e.matches # << >>
       IN /\ highlighted' = IF a THEN highlighted \cup {e.matches[1]}
                            ELSE highlighted
          /\ modal' = IF a THEN modal ELSE ModalJob
          /\ reqs' = [reqs EXCEPT ![k] = [@ EXCEPT !.st = "error",
                        !.seq = handled + 1,
                        !.errData = (e.present /\ e.err_data),
                        !.first = IF a THEN e.matches[1] ELSE NoId,
                        !.modalShown = ~a,
                        !.hl = IF a THEN {e.matches[1]} ELSE {}]]
    /\ UNCHANGED <<model, location, built, formVisible, banner, formWait,
                   buttonGen, buttonWait, portletDisabled, webhook>>

\* Variant: the modal is shown even when a field was highlighted.
SubmitErrorAlwaysModal(k, e) ==
    /\ location = "form"
    /\ UNCHANGED vvars
    /\ InFlight(k, "submit")
    /\ handled' = handled + 1
    /\ UNCHANGED invoked
    /\ buttonWait' = IF reqs[k].gen = buttonGen THEN FALSE ELSE buttonWait
    /\ portletDisabled' = FALSE
    /\ LET a == e.present /\ e.err_data /\ e.matches # << >>
       IN /\ highlighted' = IF a THEN highlighted \cup {e.matches[1]}
                            ELSE highlighted
          /\ modal' = ModalJob
          /\ reqs' = [reqs EXCEPT ![k] = [@ EXCEPT !.st = "error",
                        !.seq = handled + 1, !.cb = @ + 1, !.unwaits = @ + 1,
                        !.errData = (e.present /\ e.err_data),
                        !.first = IF a THEN e.matches[1] ELSE NoId,
                        !.modalShown = TRUE,
                        !.hl = IF a THEN {e.matches[1]} ELSE {}]]
    /\ UNCHANGED <<model, location, built, formVisible, banner, formWait,
                   buttonGen, webhook>>

\* error: callback; highlight the first field err_data matches, or else
\* show the "Job submission failed" modal.
SubmitError(k, e) ==
    /\ location = "form"
    /\ UNCHANGED vvars
    /\ InFlight(k, "submit")
    /\ handled' = handled + 1
    /\ UNCHANGED invoked
    /\ buttonWait' = IF reqs[k].gen = buttonGen THEN FALSE ELSE buttonWait
    /\ portletDisabled' = FALSE
    /\ LET a == e.present /\ e.err_data /\ e.matches # << >>
       IN /\ highlighted' = IF a THEN highlighted \cup {e.matches[1]}
                            ELSE highlighted
          /\ modal' = IF a THEN modal ELSE ModalJob
          /\ reqs' = [reqs EXCEPT ![k] = [@ EXCEPT !.st = "error",
                        !.seq = handled + 1, !.cb = @ + 1, !.unwaits = @ + 1,
                        !.errData = (e.present /\ e.err_data),
                        !.first = IF a THEN e.matches[1] ELSE NoId,
                        !.modalShown = ~a,
                        !.hl = IF a THEN {e.matches[1]} ELSE {}]]
    /\ UNCHANGED <<model, location, built, formVisible, banner, formWait,
                   buttonGen, webhook>>

\* The Close button of either modal: modal.hide().
CloseModal ==
    /\ location = "form"
    /\ UNCHANGED vvars
    /\ modal # ModalHidden
    /\ modal' = ModalHidden
    /\ UNCHANGED <<model, location, built, formVisible, banner, highlighted,
                   formWait, buttonGen, buttonWait, portletDisabled, webhook, reqs, handled, invoked>>

\* ------------------------------------------------------ the specifications
Init ==
    /\ InitLife
    /\ vForm = [a \in 1..NumInputs |-> [r |-> a, s |-> TRUE, n |-> TRUE, optional |-> FALSE]]
    /\ vInputs = [a \in 1..NumInputs |-> Null]
    /\ vDone = TRUE
    /\ vRes = validate(vForm, vInputs)

Next ==
    \/ Buildmodel
    \/ \E k \in 1..MaxReq, c \in Contents, display \in BOOLEAN :
          BuildSuccess(k, c, display)
    \/ \E k \in 1..MaxReq, status \in {401, 500}, hasModal \in BOOLEAN :
          BuildError(k, status, hasModal)
    \/ Postchange
    \/ \E k \in 1..MaxReq, c \in Contents : PostchangeSuccess(k, c)
    \/ \E k \in 1..MaxReq : PostchangeError(k)
    \/ \E res \in ValidateResults : Submit(res)
    \/ \E k \in 1..MaxReq, hasJobs \in BOOLEAN : SubmitSuccess(k, hasJobs)
    \/ \E k \in 1..MaxReq, e \in ErrorResponses : SubmitError(k, e)
    \/ CloseModal

Spec == Init /\ [][Next]_vars

InitValidate ==
    /\ InitLife
    /\ vForm \in Forms(NumInputs)
    /\ vInputs \in Inputs(NumInputs)
    /\ vDone = FALSE
    /\ vRes = [ret |-> TRUE, hl |-> NoHighlight]

Validate ==
    /\ ~vDone
    /\ vDone' = TRUE
    /\ vRes' = validate(vForm, vInputs)
    /\ UNCHANGED <<vForm, vInputs>>
    /\ UNCHANGED lvars

NextValidate == Validate

SpecValidate == InitValidate /\ [][NextValidate]_vars
\* =================================================================== claims
\* What the claims read off the inputs of validate, stated on the inputs
\* themselves.
Known(a) == vForm[a].r # NoId /\ vForm[a].s /\ vForm[a].n
ReqNull(a) == Known(a) /\ ~vForm[a].optional /\ vInputs[a].type = "null"
BatchIn(a) == Known(a) /\ vInputs[a].type = "object" /\ vInputs[a].batch
Count(a) == Len(vInputs[a].values)
HasSel(a) == BatchIn(a) /\ Count(a) > 0
Kind(a) == vInputs[a].values[1].src
Names == 1..NumInputs
Least(S) == CHOOSE x \in S : \A y \in S : x <= y

ReqNulls == { a \in Names : ReqNull(a) }
Batches == { a \in Names : BatchIn(a) }
Selected == { a \in Names : HasSel(a) }
OddCounts == { a \in Batches : Count(a) # Count(Least(Batches)) }
OddKinds == { a \in Selected : Kind(a) # Kind(Least(Selected)) }

\* C1 as stated: every required input whose value is missing gets its own
\* field highlighted, and validate returns false.
C1_AsStated ==
    vDone => \A a \in Names :
                ReqNull(a) => ~vRes.ret /\ vRes.hl.id = vForm[a].r

\* C1: if a resolved, required input has no value, validate returns false
\* and highlights one field, the first input in iteration order that fails a
\* check: never a field after the first missing one, the first missing one
\* whenever the highlight carries no message, and always the first missing
\* one when no batch mismatch is present.  validate returns true only if
\* every resolved required input has a value.
C1_RequiredPresence ==
    vDone =>
      /\ vRes.ret => \A a \in Names : Known(a) /\ ~vForm[a].optional
                                         => vInputs[a].type # "null"
      /\ ReqNulls # {} =>
            /\ ~vRes.ret
            /\ vRes.hl.id \in 1..Least(ReqNulls)
            /\ vRes.hl.msg = MsgNone => vRes.hl.id = Least(ReqNulls)
            /\ (OddCounts = {} /\ OddKinds = {})
                  => vRes.hl = Highlight(Least(ReqNulls), MsgNone, NoCount, NoCount)
      /\ (~vRes.ret /\ vRes.hl.msg = MsgNone) => vRes.hl.id \in ReqNulls

\* C1 witness: two required inputs are missing and only the first of them
\* is highlighted.
C1_Witness ==
    /\ vDone
    /\ \E a, b \in ReqNulls : a < b /\ vRes.hl.id = a /\ ~vRes.ret

\* C2 as stated: batch inputs of different selection counts always end in
\* the message that names the counts.
C2_AsStated ==
    vDone =>
      /\ vRes.ret => \A a, b \in Batches : Count(a) = Count(b)
      /\ OddCounts # {} => ~vRes.ret /\ vRes.hl.msg = MsgCount

\* C2: when validate returns true all resolved batch inputs have the same
\* number of selections; when two of them differ validate returns false and
\* highlights a field no later than the first batch input whose count
\* differs from the first batch input's; the message names both counts
\* (this field's and the first batch input's) whenever it is the count
\* message, which it is when no required value is missing and no
\* input-source kinds differ.
C2_BatchCounts ==
    vDone =>
      /\ vRes.ret => \A a, b \in Batches : Count(a) = Count(b)
      /\ OddCounts # {} =>
            /\ ~vRes.ret
            /\ vRes.hl.id \in 1..Least(OddCounts)
            /\ (ReqNulls = {} /\ OddKinds = {})
                  => vRes.hl = Highlight(Least(OddCounts), MsgCount,
                                         Count(Least(OddCounts)),
                                         Count(Least(Batches)))
      /\ vRes.hl.msg = MsgCount =>
            /\ ~vRes.ret
            /\ vRes.hl.id = Least(OddCounts)
            /\ vRes.hl.d = Count(vRes.hl.id)
            /\ vRes.hl.o = Count(Least(Batches))
            /\ vRes.hl.d # vRes.hl.o

\* C2 witness: two batch inputs differ in count and in kind, and the kind
\* message is the one shown.
C2_Witness ==
    /\ vDone
    /\ OddCounts # {}
    /\ ~vRes.ret
    /\ vRes.hl.msg = MsgKind

Reqs == DOMAIN reqs
Handled(k) == reqs[k].st \in {"success", "error"}
\* A response that set the model: buildmodel's with display, postchange's.
SetsModel(k) ==
    /\ reqs[k].st = "success"
    /\ \/ reqs[k].op = "postchange"
       \/ reqs[k].op = "buildmodel" /\ reqs[k].display
\* A sent before B, answered after B, and nothing has set the model since.
StaleLast(A, B) ==
    /\ A < B
    /\ reqs[A].op = "postchange" /\ reqs[B].op = "postchange"
    /\ Handled(A) /\ Handled(B)
    /\ reqs[A].seq > reqs[B].seq
    /\ \A j \in Reqs : SetsModel(j) => reqs[j].seq <= reqs[A].seq \/ j = A

\* C4 as stated: whatever the two responses are, the form ends up updated
\* with the response of the earlier request.
C4_AsStated ==
    \A A, B \in Reqs :
        (StaleLast(A, B) /\ \A j \in Reqs : reqs[j].seq <= reqs[A].seq)
            => reqs[A].st = "success" /\ model = ContentOf(reqs[A].content)

\* C4: if postchange A is sent before postchange B, A's response is handled
\* after B's and A's response is a success, the form is left updated with
\* A's response, whatever B's response was.
C4_StaleOverwrites ==
    \A A, B \in Reqs :
        (StaleLast(A, B) /\ reqs[A].st = "success")
            => model = ContentOf(reqs[A].content)

\* C4 witness: the older request's answer has replaced the newer one's.
C4_Witness ==
    \E A, B \in Reqs :
        /\ StaleLast(A, B)
        /\ reqs[A].st = "success" /\ reqs[B].st = "success"
        /\ reqs[A].content # reqs[B].content
        /\ model = ContentOf(reqs[A].content)

\* C5: an error response to the job POST uses exactly one surface: the
\* first field matched by err_data is highlighted and no modal is shown, or
\* (no err_data, or no match) the modal is shown and no field highlighted.
C5_OneSurface ==
    \A k \in Reqs :
        (reqs[k].op = "submit" /\ reqs[k].st = "error") =>
            IF reqs[k].errData /\ reqs[k].first # NoId
            THEN /\ reqs[k].hl = {reqs[k].first}
                 /\ ~reqs[k].modalShown
            ELSE /\ reqs[k].hl = {}
                 /\ reqs[k].modalShown
                 /\ reqs[k].first = NoId

\* C5 witness: both surfaces have been used, by two failed submissions.
C5_Witness ==
    \E k, j \in Reqs :
        /\ reqs[k].op = "submit" /\ reqs[k].st = "error"
        /\ reqs[j].op = "submit" /\ reqs[j].st = "error"
        /\ reqs[k].first # NoId /\ ~reqs[k].modalShown
        /\ reqs[j].modalShown /\ reqs[j].hl = {}

RECURSIVE SentUpTo(_)
SentUpTo(k) == IF k = 0 THEN 0 ELSE reqs[k].api + reqs[k].post + SentUpTo(k - 1)

C8_SubmitGating ==
    \A k \in Reqs :
        reqs[k].op = "submit" =>
            /\ reqs[k].api > 0 => reqs[k].valid /\ reqs[k].action = Runner
            /\ ~reqs[k].valid => reqs[k].api = 0 /\ reqs[k].post = 0
            /\ (reqs[k].valid /\ reqs[k].action # Runner)
                  => reqs[k].post = 1 /\ reqs[k].api = 0
            /\ (reqs[k].valid /\ reqs[k].action = Runner)
                  => reqs[k].post = 0 /\ reqs[k].api = 1

\* C8 witness: one submission was rejected by validate and a later one was
\* posted to the API.
C8_Witness ==
    \E k, j \in Reqs :
        /\ reqs[k].op = "submit" /\ ~reqs[k].valid /\ reqs[k].api = 0
        /\ reqs[j].op = "submit" /\ reqs[j].valid /\ reqs[j].api = 1

\* C9: submit's callback runs exactly once per click: not before the
\* response of a posted job, once on every finished path; with no
\* submission in flight the button is not waiting and the portlet enabled.
C9_CallbackOnce ==
    /\ \A k \in Reqs :
          reqs[k].op = "submit" =>
              IF reqs[k].st = "inflight"
              THEN reqs[k].cb = 0 /\ reqs[k].unwaits = 0
              ELSE reqs[k].cb = 1 /\ reqs[k].unwaits = 1
    /\ (\A k \in Reqs : reqs[k].op = "submit" => reqs[k].st # "inflight")
          => ~buttonWait /\ ~portletDisabled

\* C9 witness: a submission failed on the server and another was rejected
\* locally, and each ran its callback.
C9_Witness ==
    \E k, j \in Reqs :
        /\ reqs[k].op = "submit" /\ reqs[k].st = "error" /\ reqs[k].cb = 1
        /\ reqs[j].op = "submit" /\ reqs[j].st = "invalid" /\ reqs[j].cb = 1

\* C10: once a postchange request completes, by success or by error, the
\* waiting indicator it set has been cleared once and its deferred process
\* settled once, resolved on success and rejected on error.
C10_WaitCleared ==
    \A k \in Reqs :
        (reqs[k].op = "postchange" /\ Handled(k)) =>
            /\ reqs[k].unwaits = 1
            /\ reqs[k].settled = 1
            /\ reqs[k].outcome =
                  (IF reqs[k].st = "success" THEN "resolved" ELSE "rejected")
====
